---- MODULE Spec2Model ----
(***************************************************************************)
(* Model of src/UTS.py, the Tokopedia sales dashboard: one run of the      *)
(* Streamlit script over one source table.  The script is straight-line    *)
(* code; every step below is one stretch of it, and pc is the position of  *)
(* the run.  A run ends "done" (the footer was written), "stopped"         *)
(* (st.stop) or "crashed" (an exception left the script).                  *)
(*                                                                         *)
(* Text is modelled as sequences of character codes, so that str.lower,    *)
(* str.contains, sorted() and the lexical order of the '%Y-%m' keys are    *)
(* computed, not assumed.                                                  *)
(*                                                                         *)
(* Left out: the st.cache_data cache of load_data, the stripping of        *)
(* column names (line 16: the sheet's columns are taken as already         *)
(* stripped), the optional registered_date column (lines 19-20) and the    *)
(* number formatting of the scorecards.  A text cell of a numeric or date  *)
(* column stands for text that does not parse.                             *)
(***************************************************************************)
EXTENDS Integers, Sequences, FiniteSets

VARIABLES
    file_exists,        \* excel_path.exists()
    raw,                \* the sheet pd.read_excel returns: [cols, rows]
    df,                 \* load_data's result: [cols, rows]
    selected_year,      \* the four sidebar selections
    selected_category,
    selected_payment,
    value_transaction,
    df_f,               \* the filtered view (a sequence of prepared rows)
    monthly_metrics,    \* tab1's monthly table (a sequence of buckets)
    prod_agg,           \* tab2's product rollup (a sequence of groups)
    df_mobile_jazz,     \* tab2's derived segment
    scorecards,         \* tab2's KPI scorecards
    out,                \* the output calls made so far, in order
    error,              \* the exception that ended the run, if any
    pc

vars == <<file_exists, raw, df, selected_year, selected_category,
          selected_payment, value_transaction, df_f, monthly_metrics,
          prod_agg, df_mobile_jazz, scorecards, out, error, pc>>

\* The largest number of rows of the source table.
MaxRows == 2

(***************************************************************************)
(* Text                                                                    *)
(***************************************************************************)
s_All        == <<65, 108, 108>>
s_nan        == <<110, 97, 110>>
s_Mobile     == <<77, 111, 98, 105, 108, 101>>
s_TV         == <<84, 86>>
s_JazzWallet == <<74, 97, 122, 122, 87, 97, 108, 108, 101, 116>>
s_cod        == <<99, 111, 100>>
s_A          == <<65>>
s_mobile     == <<109, 111, 98, 105, 108, 101>>
s_tablet     == <<116, 97, 98, 108, 101, 116>>
s_jazz       == <<106, 97, 122, 122>>

\* str.lower() on ASCII text
Lower(s) == [i \in 1..Len(s) |-> IF s[i] \in 65..90 THEN s[i] + 32 ELSE s[i]]

\* str.contains(sub) for a literal sub
Contains(s, sub) ==
    \E i \in 0..(Len(s) - Len(sub)) : SubSeq(s, i + 1, i + Len(sub)) = sub

\* Python's order on str (and on lists of ints): the first differing
\* position decides, a proper prefix is smaller.
LexLess(a, b) ==
    \/ /\ Len(a) < Len(b)
       /\ SubSeq(b, 1, Len(a)) = a
    \/ \E i \in 1..Len(a) :
          /\ i <= Len(b)
          /\ SubSeq(a, 1, i - 1) = SubSeq(b, 1, i - 1)
          /\ a[i] < b[i]

LexLeq(a, b) == a = b \/ LexLess(a, b)

\* sorted(S) for a set of texts
RECURSIVE SortLex(_)
SortLex(S) ==
    IF S = {} THEN <<>>
    ELSE LET m == CHOOSE x \in S : \A y \in S : LexLeq(x, y)
         IN  <<m>> \o SortLex(S \ {m})

\* sorted(S) for a set of integers
RECURSIVE SortInt(_)
SortInt(S) ==
    IF S = {} THEN <<>>
    ELSE LET m == CHOOSE x \in S : \A y \in S : x <= y
         IN  <<m>> \o SortInt(S \ {m})

Range(s) == {s[i] : i \in 1..Len(s)}

(***************************************************************************)
(* Cells of the sheet                                                      *)
(***************************************************************************)
\* a number cell, a text cell whose text is no number, an empty cell
Num(n)  == [t |-> "num", n |-> n]
BadNum  == [t |-> "text", n |-> 0]
NaN     == [t |-> "nan", n |-> 0]
\* a text cell, an empty cell
Text(s) == [t |-> "text", s |-> s]
NoText  == [t |-> "nan", s |-> <<>>]
\* a date cell, a text cell that is no date
Date(y, m, d) == [t |-> "date", y |-> y, m |-> m, d |-> d]
BadDate       == [t |-> "text", y |-> 0, m |-> 0, d |-> 0]
NaT           == [t |-> "nat", y |-> 0, m |-> 0, d |-> 0]

AllCols == {"id", "order_date", "customer_id", "sku_id", "sku_name", "category",
            "payment_method", "price", "qty_ordered", "before_discount",
            "discount_amount", "after_discount", "cogs", "is_valid"}

\* The first row of the spec's example scenario (section 8), with the
\* columns the example leaves out filled in.
BaseRow ==
    [id |-> Num(1), order_date |-> Date(2022, 2, 1), customer_id |-> Num(7),
     sku_id |-> Num(1), sku_name |-> Text(s_A), category |-> Text(s_Mobile),
     payment_method |-> Text(s_JazzWallet), price |-> Num(50),
     qty_ordered |-> Num(2), before_discount |-> Num(100),
     discount_amount |-> Num(10), after_discount |-> Num(90),
     cogs |-> Num(20), is_valid |-> Num(1)]

RawDates    == {Date(2021, 12, 5), Date(2022, 2, 1), Date(2022, 10, 15), BadDate}
RawIds      == {Num(1), Num(2), NaN}
RawValues   == {Num(100), BadNum}
RawValidity == {Num(0), Num(1), Num(2), BadNum}

\* The rows a source table is made of: the base row with one cell (or the
\* order id and the order value together) replaced.
RowPool ==
    {[BaseRow EXCEPT !.order_date = d] : d \in RawDates}
    \cup {[BaseRow EXCEPT !.id = i, !.before_discount = b] :
             i \in RawIds, b \in RawValues}
    \cup {[BaseRow EXCEPT !.sku_id = NaN], [BaseRow EXCEPT !.sku_name = NoText],
          [BaseRow EXCEPT !.category = NoText],
          [BaseRow EXCEPT !.category = Text(s_TV)],
          [BaseRow EXCEPT !.payment_method = Text(s_cod)]}
    \cup {[BaseRow EXCEPT !.is_valid = v] : v \in RawValidity}

\* The column sets of a source table: all columns, or one column short.
Droppable  == {"order_date", "id", "category", "payment_method",
               "after_discount", "is_valid"}
ColumnSets == {AllCols} \cup {AllCols \ {c} : c \in Droppable}

\* A row of a sheet that has only the columns cols.
BlankCell(c) ==
    IF c = "order_date" THEN NaT
    ELSE IF c \in {"sku_name", "category", "payment_method"} THEN NoText
    ELSE NaN
Project(row, cols) == [c \in AllCols |-> IF c \in cols THEN row[c] ELSE BlankCell(c)]

Tables(n) == UNION {[1..k -> RowPool] : k \in 0..n}

NoTable == [cols |-> {}, rows |-> <<>>]
NoError == [exc |-> "", arg |-> "", at |-> ""]
None    == [t |-> "none", n |-> 0]
NoScorecards == [total_before |-> 0, total_after |-> 0, total_net |-> 0,
                 total_qty |-> 0, unique_customers |-> 0,
                 aov_overall |-> [k |-> "nan", num |-> 0, den |-> 0]]

(***************************************************************************)
(* load_data                                                               *)
(***************************************************************************)
NumericCols == {"price", "qty_ordered", "before_discount", "discount_amount",
                "after_discount", "cogs"}

\* pd.to_datetime(errors='coerce') on one cell
to_datetime(c) == IF c.t = "date" THEN c ELSE NaT

\* pd.to_numeric(errors='coerce') on one cell
to_numeric(c) == IF c.t = "num" THEN c ELSE NaN

\* .fillna(0) on one cell, as a number
fillna0(c) == IF c.t = "nan" THEN 0 ELSE c.n

\* .astype(int) after fillna(0)
is_valid_coerce(c) == fillna0(to_numeric(c))

\* strftime('%Y-%-m'): the month without its leading zero
strftime_NoPad(d) ==
    IF d.t = "nat" THEN [t |-> "nan", s |-> <<>>]
    ELSE [t |-> "text",
          s |-> <<48 + (d.y \div 1000), 48 + ((d.y \div 100) % 10),
                  48 + ((d.y \div 10) % 10), 48 + (d.y % 10), 45>>
                \o (IF d.m >= 10 THEN <<48 + (d.m \div 10)>> ELSE <<>>)
                \o <<48 + (d.m % 10)>>]

\* Series.dt.strftime('%Y-%m') on one timestamp: four digits, '-', two digits
strftime_Ym(d) ==
    IF d.t = "nat" THEN NoText
    ELSE Text(<<48 + (d.y \div 1000), 48 + ((d.y \div 100) % 10),
                48 + ((d.y \div 10) % 10), 48 + (d.y % 10), 45,
                48 + (d.m \div 10), 48 + (d.m % 10)>>)

dt_year(d)  == IF d.t = "nat" THEN NaN ELSE Num(d.y)
dt_month(d) == IF d.t = "nat" THEN NaN ELSE Num(d.m)

\* df.get(c, 0) as a number of the row being prepared
get0(r, cols, c) == IF c \in cols THEN r[c] ELSE 0

\* One row through load_data (lines 18-35); cols are the sheet's columns.
PrepareRow(row, cols) ==
    LET r1 == [row EXCEPT !.order_date = to_datetime(row.order_date)]
        r2 == [c \in DOMAIN r1 |->
                 IF c \in NumericCols /\ c \in cols
                 THEN fillna0(to_numeric(r1[c])) ELSE r1[c]]
        np == IF {"before_discount", "cogs", "qty_ordered"} \subseteq cols
              THEN r2.before_discount - (r2.cogs * r2.qty_ordered)
              ELSE (get0(r2, cols, "price") * get0(r2, cols, "qty_ordered"))
                   - (get0(r2, cols, "cogs") * get0(r2, cols, "qty_ordered"))
        r3 == IF "is_valid" \in cols
              THEN [r2 EXCEPT !.is_valid = is_valid_coerce(r2.is_valid)]
              ELSE r2
    IN  [c \in DOMAIN r3 \cup {"net_profit", "year", "month", "month_name"} |->
           CASE c = "net_profit" -> np
             [] c = "year"       -> dt_year(r3.order_date)
             [] c = "month"      -> dt_month(r3.order_date)
             [] c = "month_name" -> strftime_Ym(r3.order_date)
             [] OTHER            -> r3[c]]

load_data(sheet) ==
    [cols |-> sheet.cols \cup {"net_profit", "year", "month", "month_name"},
     rows |-> [i \in 1..Len(sheet.rows) |-> PrepareRow(sheet.rows[i], sheet.cols)]]

(***************************************************************************)
(* Sidebar options (lines 55-62)                                           *)
(***************************************************************************)
\* .astype(str) on a text cell: an empty cell reads 'nan'
astype_str(c) == IF c.t = "nan" THEN s_nan ELSE c.s

\* sorted(df['year'].dropna().unique().astype(int).tolist())
years(d) == SortInt({r.year.n : r \in {x \in Range(d.rows) : x.year.t = "num"}})

\* ["All"] + sorted(df[col].dropna().unique().astype(str).tolist())
options(d, col) ==
    <<s_All>> \o SortLex({astype_str(r[col]) :
                            r \in {x \in Range(d.rows) : x[col].t # "nan"}})

ValidityOptions == <<"All", "Valid", "Not Valid">>

\* st.sidebar.selectbox over the years: any option may be the selection
\* (the default index only preselects one); None when there are no options
selectbox(opts) == IF Len(opts) = 0 THEN {None} ELSE {Num(opts[i]) : i \in 1..Len(opts)}

(***************************************************************************)
(* Apply filters (lines 65-74)                                             *)
(***************************************************************************)
YearMatches(r, y)     == r.year.t = "num" /\ r.year.n = y
CategoryMatches(r, c) == astype_str(r.category) = c
PaymentMatches(r, p)  == astype_str(r.payment_method) = p
ValidityMatches(r, v) == r.is_valid = v

\* a year filter that lets rows without a year through
FilterYear_KeepNull(rows, y) ==
    SelectSeq(rows, LAMBDA r : r.year.t # "num" \/ r.year.n = y)

\* df_f[df_f['year'] == int(selected_year)]
FilterYear(rows, y) == SelectSeq(rows, LAMBDA r : YearMatches(r, y))
\* df_f[df_f['category'].astype(str) == selected_category]
FilterCategory(rows, c) == SelectSeq(rows, LAMBDA r : CategoryMatches(r, c))
\* df_f[df_f['payment_method'].astype(str) == selected_payment]
FilterPayment(rows, p) == SelectSeq(rows, LAMBDA r : PaymentMatches(r, p))
\* df_f[df_f['is_valid'] == 1], df_f[df_f['is_valid'] == 0]
FilterValidity(rows, v) == SelectSeq(rows, LAMBDA r : ValidityMatches(r, v))

\* the filter step with the category restriction taken from df, not from df_f
ApplyFilters_FromDf(rows, y, c, p, vt) ==
    LET f1 == FilterYear(rows, y)
        f2 == IF c # s_All THEN FilterCategory(rows, c) ELSE f1
        f3 == IF p # s_All THEN FilterPayment(f2, p) ELSE f2
    IN  IF vt = "Valid" THEN FilterValidity(f3, 1)
        ELSE IF vt = "Not Valid" THEN FilterValidity(f3, 0)
        ELSE f3

\* The filter step as the code runs it: one restriction after the other,
\* each on the result of the one before.
ApplyFilters(rows, y, c, p, vt) ==
    LET f1 == FilterYear(rows, y)
        f2 == IF c # s_All THEN FilterCategory(f1, c) ELSE f1
        f3 == IF p # s_All THEN FilterPayment(f2, p) ELSE f2
    IN  IF vt = "Valid" THEN FilterValidity(f3, 1)
        ELSE IF vt = "Not Valid" THEN FilterValidity(f3, 0)
        ELSE f3

(***************************************************************************)
(* Aggregation                                                             *)
(***************************************************************************)
\* Series.sum() of a numeric column
RECURSIVE SumCol(_, _)
SumCol(rows, c) ==
    IF Len(rows) = 0 THEN 0 ELSE rows[1][c] + SumCol(Tail(rows), c)

\* Series.nunique() of a column of cells: empty cells are not counted
nunique(rows, c) == Cardinality({r[c] : r \in {x \in Range(rows) : x[c].t # "nan"}})

\* Series / Series on one pair of numbers: no exception; x/0 is +-inf, 0/0 is NaN
Divide(x, n) ==
    IF n # 0 THEN [k |-> "num", num |-> x, den |-> n]
    ELSE IF x = 0 THEN [k |-> "nan", num |-> 0, den |-> 0]
    ELSE IF x > 0 THEN [k |-> "inf", num |-> 1, den |-> 0]
    ELSE [k |-> "inf", num |-> -1, den |-> 0]

\* np.nan
np_nan == [k |-> "nan", num |-> 0, den |-> 0]

\* The keys of groupby('month_name'): rows with an empty key form no group
\* (dropna=True), the groups come sorted by key.
MonthKeys(rows) ==
    SortLex({r.month_name.s : r \in {x \in Range(rows) : x.month_name.t # "nan"}})

MonthGroup(rows, k) ==
    SelectSeq(rows, LAMBDA r : r.month_name.t # "nan" /\ r.month_name.s = k)

\* lines 82-85
MonthlyMetrics(rows) ==
    LET keys == MonthKeys(rows)
    IN  [i \in 1..Len(keys) |->
           LET g == MonthGroup(rows, keys[i])
               bd == SumCol(g, "before_discount")
               uo == nunique(g, "id")
           IN  [month_name |-> keys[i], before_discount |-> bd,
                net_profit |-> SumCol(g, "net_profit"), unique_orders |-> uo,
                AOV |-> Divide(bd, uo)]]

\* The keys of groupby(['sku_id','sku_name','category']): a row with an
\* empty cell in any key column is in no group (dropna=True).
ProdKey(r) == <<r.sku_id.n, r.sku_name.s, r.category.s>>
HasProdKey(r) == r.sku_id.t # "nan" /\ r.sku_name.t # "nan" /\ r.category.t # "nan"
ProdKeys(rows) == {ProdKey(r) : r \in {x \in Range(rows) : HasProdKey(x)}}

ProdKeyLess(a, b) ==
    \/ a[1] < b[1]
    \/ a[1] = b[1] /\ LexLess(a[2], b[2])
    \/ a[1] = b[1] /\ a[2] = b[2] /\ LexLess(a[3], b[3])

ProdGroup(rows, k) == SelectSeq(rows, LAMBDA r : HasProdKey(r) /\ ProdKey(r) = k)

ProdRow(rows, k) ==
    LET g == ProdGroup(rows, k)
    IN  [sku_id |-> k[1], sku_name |-> k[2], category |-> k[3],
         before_discount |-> SumCol(g, "before_discount"),
         after_discount |-> SumCol(g, "after_discount"),
         net_profit |-> SumCol(g, "net_profit"),
         qty_ordered |-> SumCol(g, "qty_ordered"),
         unique_customers |-> nunique(g, "customer_id")]

\* sort_values('before_discount', ascending=False) over the groups in key
\* order: the largest value first, equal values in key order.
RECURSIVE SortGroups(_)
SortGroups(G) ==
    IF G = {} THEN <<>>
    ELSE LET m == CHOOSE x \in G : \A y \in G \ {x} :
                     \/ x.before_discount > y.before_discount
                     \/ /\ x.before_discount = y.before_discount
                        /\ ProdKeyLess(<<x.sku_id, x.sku_name, x.category>>,
                                       <<y.sku_id, y.sku_name, y.category>>)
         IN  <<m>> \o SortGroups(G \ {m})

\* lines 120-127
ProdAgg(rows) == SortGroups({ProdRow(rows, k) : k \in ProdKeys(rows)})

\* lines 130-135
Scorecards(rows, pa) ==
    [total_before |-> SumCol(pa, "before_discount"),
     total_after |-> SumCol(pa, "after_discount"),
     total_net |-> SumCol(pa, "net_profit"),
     total_qty |-> SumCol(pa, "qty_ordered"),
     unique_customers |-> nunique(rows, "customer_id"),
     aov_overall |-> IF nunique(rows, "id") > 0
                     THEN Divide(SumCol(rows, "before_discount"), nunique(rows, "id"))
                     ELSE np_nan]

\* line 150: the categories of the rollup (the bars of the category chart)
CatAgg(pa) == {g.category : g \in Range(pa)}

\* lines 159-162
MobileJazz(rows, cols) ==
    SelectSeq(rows, LAMBDA r :
        /\ \/ Contains(Lower(astype_str(r.category)), s_mobile)
           \/ Contains(Lower(astype_str(r.category)), s_tablet)
        /\ Contains(Lower(astype_str(r.payment_method)), s_jazz)
        /\ ("is_valid" \in cols => r.is_valid = 1))

(***************************************************************************)
(* The run                                                                 *)
(***************************************************************************)
Out(kind, what, state) == [kind |-> kind, what |-> what, state |-> state]

Init ==
    /\ file_exists \in BOOLEAN
    /\ IF file_exists
       THEN \E cols \in ColumnSets, t \in Tables(MaxRows) :
               raw = [cols |-> cols,
                      rows |-> [i \in 1..Len(t) |-> Project(t[i], cols)]]
       ELSE raw = NoTable
    /\ df = NoTable
    /\ selected_year = None
    /\ selected_category = <<>>
    /\ selected_payment = <<>>
    /\ value_transaction = ""
    /\ df_f = <<>>
    /\ monthly_metrics = <<>>
    /\ prod_agg = <<>>
    /\ df_mobile_jazz = <<>>
    /\ scorecards = NoScorecards
    /\ out = <<>>
    /\ error = NoError
    /\ pc = "title"

\* An exception leaves the script: nothing after it runs.
Raise(exc, arg) ==
    /\ error' = [exc |-> exc, arg |-> arg, at |-> pc]
    /\ pc' = "crashed"

\* lines 41-42
Title ==
    /\ pc = "title"
    /\ out' = out \o <<Out("title", "Tokopedia Sales Dashboard (2022)", "shown"),
                       Out("markdown", "intro", "shown")>>
    /\ pc' = "checkfile"
    /\ UNCHANGED <<file_exists, raw, df, selected_year, selected_category,
                   selected_payment, value_transaction, df_f, monthly_metrics,
                   prod_agg, df_mobile_jazz, scorecards, error>>

\* lines 45-49
CheckFile ==
    /\ pc = "checkfile"
    /\ IF ~file_exists
       THEN /\ out' = Append(out, Out("error", "Data file not found", "shown"))
            /\ pc' = "stopped"
       ELSE /\ out' = out
            /\ pc' = "load"
    /\ UNCHANGED <<file_exists, raw, df, selected_year, selected_category,
                   selected_payment, value_transaction, df_f, monthly_metrics,
                   prod_agg, df_mobile_jazz, scorecards, error>>

\* line 51 (load_data, lines 14-36)
Load ==
    /\ pc = "load"
    /\ IF "order_date" \notin raw.cols
       THEN /\ Raise("KeyError", "order_date")
            /\ df' = df
       ELSE /\ df' = load_data(raw)
            /\ pc' = "sb_year"
            /\ error' = error
    /\ UNCHANGED <<file_exists, raw, selected_year, selected_category,
                   selected_payment, value_transaction, df_f, monthly_metrics,
                   prod_agg, df_mobile_jazz, scorecards, out>>

AllButOut == <<file_exists, raw, df, selected_year, selected_category,
               selected_payment, value_transaction, df_f, monthly_metrics,
               prod_agg, df_mobile_jazz, scorecards, error>>

\* lines 54-57
SidebarYear ==
    /\ pc = "sb_year"
    /\ out' = out \o <<Out("sidebar.header", "Filters", "shown"),
                       Out("sidebar.selectbox", "Year", "shown")>>
    /\ selected_year' \in selectbox(years(df))
    /\ pc' = "sb_category"
    /\ UNCHANGED <<file_exists, raw, df, selected_category, selected_payment,
                   value_transaction, df_f, monthly_metrics, prod_agg,
                   df_mobile_jazz, scorecards, error>>

\* lines 58-59
SidebarCategory ==
    /\ pc = "sb_category"
    /\ IF "category" \notin df.cols
       THEN /\ Raise("KeyError", "category")
            /\ UNCHANGED <<selected_category, out>>
       ELSE /\ selected_category' \in Range(options(df, "category"))
            /\ out' = Append(out, Out("sidebar.selectbox", "Category", "shown"))
            /\ pc' = "sb_payment"
            /\ error' = error
    /\ UNCHANGED <<file_exists, raw, df, selected_year, selected_payment,
                   value_transaction, df_f, monthly_metrics, prod_agg,
                   df_mobile_jazz, scorecards>>

\* lines 60-61
SidebarPayment ==
    /\ pc = "sb_payment"
    /\ IF "payment_method" \notin df.cols
       THEN /\ Raise("KeyError", "payment_method")
            /\ UNCHANGED <<selected_payment, out>>
       ELSE /\ selected_payment' \in Range(options(df, "payment_method"))
            /\ out' = Append(out, Out("sidebar.selectbox", "Payment Method", "shown"))
            /\ pc' = "sb_validity"
            /\ error' = error
    /\ UNCHANGED <<file_exists, raw, df, selected_year, selected_category,
                   value_transaction, df_f, monthly_metrics, prod_agg,
                   df_mobile_jazz, scorecards>>

\* line 62
SidebarValidity ==
    /\ pc = "sb_validity"
    /\ value_transaction' \in Range(ValidityOptions)
    /\ out' = Append(out, Out("sidebar.selectbox", "Value Transaction", "shown"))
    /\ pc' = "filter"
    /\ UNCHANGED <<file_exists, raw, df, selected_year, selected_category,
                   selected_payment, df_f, monthly_metrics, prod_agg,
                   df_mobile_jazz, scorecards, error>>

\* lines 65-74: int(None) raises TypeError; df_f['is_valid'] raises KeyError
\* when the sheet has no such column.
Filter ==
    /\ pc = "filter"
    /\ IF selected_year = None
       THEN /\ Raise("TypeError", "int(None)")
            /\ df_f' = df_f
       ELSE IF value_transaction # "All" /\ "is_valid" \notin df.cols
       THEN /\ Raise("KeyError", "is_valid")
            /\ df_f' = df_f
       ELSE /\ df_f' = ApplyFilters(df.rows, selected_year.n, selected_category,
                                    selected_payment, value_transaction)
            /\ pc' = "tabs"
            /\ error' = error
    /\ UNCHANGED <<file_exists, raw, df, selected_year, selected_category,
                   selected_payment, value_transaction, monthly_metrics,
                   prod_agg, df_mobile_jazz, scorecards, out>>

\* line 77
Tabs ==
    /\ pc = "tabs"
    /\ out' = Append(out, Out("tabs", "Dashboard Penjualan (2022) | Analisis Produk", "shown"))
    /\ pc' = "tab1"
    /\ UNCHANGED AllButOut

\* What a chart or table shows: its data, or nothing at all.
Shown(empty) == IF empty THEN "empty" ELSE "data"

\* lines 79-115
Tab1 ==
    /\ pc = "tab1"
    /\ LET hdr == Append(out, Out("header", "Sales Trend (Monthly)", "shown"))
           mm  == MonthlyMetrics(df_f)
       IN  IF "id" \notin df.cols
           THEN /\ Raise("KeyError", "id")
                /\ out' = hdr
                /\ monthly_metrics' = monthly_metrics
           ELSE /\ monthly_metrics' = mm
                /\ out' = hdr
                     \o (IF Len(mm) = 0
                         THEN <<Out("info", "No data available for selected filters.", "nodata")>>
                         ELSE <<Out("metric", "Before Discount (Total)", "value"),
                                Out("metric", "After Discount (Est.)",
                                    IF "after_discount" \in df.cols THEN "value" ELSE "N/A"),
                                Out("metric", "Net Profit (Total)", "value"),
                                Out("metric", "Total Quantity", "value"),
                                Out("metric", "Unique Orders", "value"),
                                Out("pyplot", "Sales Trend", "data")>>)
                     \o <<Out("markdown", "Insight & Call to Action", "shown"),
                          Out("write", "insight", "shown")>>
                /\ pc' = "tab2"
                /\ error' = error
    /\ UNCHANGED <<file_exists, raw, df, selected_year, selected_category,
                   selected_payment, value_transaction, df_f, prod_agg,
                   df_mobile_jazz, scorecards>>

\* lines 117-174
Tab2 ==
    /\ pc = "tab2"
    /\ LET hdr == Append(out, Out("header", "Product-level Summary", "shown"))
           pa  == ProdAgg(df_f)
           mj  == MobileJazz(df_f, df.cols)
       IN  IF "after_discount" \notin df.cols
           THEN /\ Raise("KeyError", "after_discount")
                /\ out' = hdr
                /\ UNCHANGED <<prod_agg, scorecards, df_mobile_jazz>>
           ELSE /\ prod_agg' = pa
                /\ scorecards' = Scorecards(df_f, pa)
                /\ df_mobile_jazz' = mj
                /\ out' = hdr
                     \o <<Out("metric", "Total Before Discount", "value"),
                          Out("metric", "Total After Discount", "value"),
                          Out("metric", "Total Net Profit", "value"),
                          Out("metric", "Total Quantity", "value"),
                          Out("metric", "AOV (overall)", "value"),
                          Out("subheader", "Top Products (table)", "shown"),
                          Out("dataframe", "Top Products", Shown(Len(pa) = 0)),
                          Out("pyplot", "Sales by Category (filtered)",
                              Shown(CatAgg(pa) = {})),
                          Out("subheader", "Mobile & Tablet paid via JazzWallet (2022)", "shown")>>
                     \o (IF Len(mj) = 0
                         THEN <<Out("info", "No Mobile & Tablet transactions paid via JazzWallet for selected filters.", "nodata")>>
                         ELSE <<Out("write", "Total Quantity / Unique Customers", "value"),
                                Out("pyplot", "Quantity by Month (Mobile & Tablet via JazzWallet)", "data")>>)
                /\ pc' = "footer"
                /\ error' = error
    /\ UNCHANGED <<file_exists, raw, df, selected_year, selected_category,
                   selected_payment, value_transaction, df_f, monthly_metrics>>

\* lines 176-177
Footer ==
    /\ pc = "footer"
    /\ out' = out \o <<Out("markdown", "---", "shown"), Out("markdown", "Notes", "shown")>>
    /\ pc' = "done"
    /\ UNCHANGED AllButOut

Next ==
    \/ Title
    \/ CheckFile
    \/ Load
    \/ SidebarYear
    \/ SidebarCategory
    \/ SidebarPayment
    \/ SidebarValidity
    \/ Filter
    \/ Tabs
    \/ Tab1
    \/ Tab2
    \/ Footer

Spec == Init /\ [][Next]_vars

(***************************************************************************)
(* How far the run has come                                                *)
(***************************************************************************)
Halted     == pc \in {"stopped", "crashed"}
Loaded     == df # NoTable
FilterDone == \/ pc \in {"tabs", "tab1", "tab2", "footer", "done"}
              \/ pc = "crashed" /\ error.at \in {"tab1", "tab2"}
Tab1Done   == \/ pc \in {"tab2", "footer", "done"}
              \/ pc = "crashed" /\ error.at = "tab2"
Tab2Done   == pc \in {"footer", "done"}
Outputs    == Range(out)

(***************************************************************************)
(* C1: with the validity selector on "Valid" or "Not Valid" and no         *)
(* is_valid column in the table, the filter step does not crash: it        *)
(* yields the view that excludes no row on account of validity (or says    *)
(* so explicitly), whatever the year, category and payment method.         *)
(***************************************************************************)
C1_ValidityFilterWithoutColumn ==
    ( /\ Loaded
      /\ "is_valid" \notin df.cols
      /\ value_transaction \in {"Valid", "Not Valid"}
      /\ selected_year # None
      /\ pc # "filter" )
    => /\ ~(pc = "crashed" /\ error.at = "filter")
       /\ df_f = ApplyFilters(df.rows, selected_year.n, selected_category,
                              selected_payment, "All")

(***************************************************************************)
(* C2: without the optional after_discount column a full pass ends with    *)
(* the footer and raises nothing; the metrics that need after_discount     *)
(* read N/A and the others are produced.                                   *)
(***************************************************************************)
AfterDiscountMetric(o) ==
    o.kind = "metric" /\ o.what \in {"After Discount (Est.)", "Total After Discount"}

C2_MissingAfterDiscountDegrades ==
    ( /\ Loaded
      /\ "after_discount" \notin df.cols
      /\ FilterDone )
    => /\ pc # "crashed"
       /\ \A o \in Outputs : AfterDiscountMetric(o) => o.state = "N/A"
       /\ Tab2Done => \E o \in Outputs : o.kind = "metric" /\ o.what = "Total Before Discount"

(***************************************************************************)
(* C3: a run in which a fatal condition occurs (no source file, or a       *)
(* required column absent) halts with nothing of the dashboard rendered:   *)
(* the only output before the halt is the error message.                   *)
(***************************************************************************)
RequiredCols == {"order_date", "id", "category", "payment_method"}
Fatal == ~file_exists \/ ~(RequiredCols \subseteq raw.cols)

C3_FatalHaltsBeforeRender ==
    (Fatal /\ Halted) => \A o \in Outputs : o.kind = "error"

(***************************************************************************)
(* C4: the before_discount sums of the product rollup add up to the        *)
(* before_discount sum of the filtered view: grouping drops no row, rows   *)
(* with a missing sku_id, sku_name or category included.                   *)
(***************************************************************************)
C4_RollupKeepsTotal ==
    Tab2Done =>
        /\ SumCol(prod_agg, "before_discount") = SumCol(df_f, "before_discount")
        /\ scorecards.total_before = SumCol(df_f, "before_discount")

(***************************************************************************)
(* C5: the monthly buckets partition the filtered view: every row is in    *)
(* exactly one bucket, the buckets' before_discount and net_profit sums    *)
(* add up to the view's totals, and the buckets come in chronological      *)
(* order of their year and month.                                          *)
(***************************************************************************)
InBucket(r, b) == r.month_name.t = "text" /\ r.month_name.s = b.month_name

C5_MonthlyBucketsPartition ==
    Tab1Done =>
        /\ \A i \in 1..Len(df_f) :
              Cardinality({j \in 1..Len(monthly_metrics) :
                              InBucket(df_f[i], monthly_metrics[j])}) = 1
        /\ SumCol(monthly_metrics, "before_discount") = SumCol(df_f, "before_discount")
        /\ SumCol(monthly_metrics, "net_profit") = SumCol(df_f, "net_profit")
        /\ \A i, j \in 1..Len(monthly_metrics) :
              \A r1, r2 \in Range(df_f) :
                 (InBucket(r1, monthly_metrics[i]) /\ InBucket(r2, monthly_metrics[j]))
                 => /\ i = j => (r1.year = r2.year /\ r1.month = r2.month)
                    /\ i < j => \/ r1.year.n < r2.year.n
                                \/ r1.year.n = r2.year.n /\ r1.month.n < r2.month.n

C5_Witness ==
    /\ Tab1Done
    /\ Len(monthly_metrics) = 2
    /\ \E r1, r2 \in Range(df_f) : r1.month.n = 2 /\ r2.month.n = 10

(***************************************************************************)
(* C6: a monthly bucket with no distinct order id has a NaN AOV, whatever  *)
(* its before_discount sum; every other bucket's AOV is its                *)
(* before_discount sum over its count of distinct order ids.               *)
(***************************************************************************)
C6_ZeroOrderBucketIsNaN ==
    Tab1Done =>
        \A j \in 1..Len(monthly_metrics) :
            LET b == monthly_metrics[j]
            IN  IF b.unique_orders = 0
                THEN b.AOV.k = "nan"
                ELSE b.AOV = [k |-> "num", num |-> b.before_discount,
                              den |-> b.unique_orders]

(***************************************************************************)
(* C7: with an empty filtered view every dependent output shows an         *)
(* explicit "no data" state: no chart or table is drawn empty.             *)
(***************************************************************************)
C7_EmptyViewShowsNoData ==
    (pc = "done" /\ Len(df_f) = 0) =>
        \A o \in Outputs :
            o.kind \in {"pyplot", "dataframe", "metric"} => o.state = "nodata"

(***************************************************************************)
(* C8: after preparation of a table with an is_valid column, every row's   *)
(* is_valid is the integer 0 or the integer 1.                             *)
(***************************************************************************)
C8_ValidityIsZeroOrOne ==
    (Loaded /\ "is_valid" \in df.cols) =>
        \A i \in 1..Len(df.rows) : df.rows[i].is_valid \in {0, 1}

(***************************************************************************)
(* C9: the filtered view holds exactly the rows of the prepared table      *)
(* that satisfy every selected predicate, in the table's order; applying   *)
(* the predicates in another order gives the same view, and restricting    *)
(* the view by one more predicate equals filtering the table by the        *)
(* conjunction.                                                            *)
(***************************************************************************)
Selected(r) ==
    /\ YearMatches(r, selected_year.n)
    /\ selected_category # s_All => CategoryMatches(r, selected_category)
    /\ selected_payment # s_All => PaymentMatches(r, selected_payment)
    /\ value_transaction = "Valid" => ValidityMatches(r, 1)
    /\ value_transaction = "Not Valid" => ValidityMatches(r, 0)

ReverseOrder ==
    LET g1 == IF value_transaction = "Valid" THEN FilterValidity(df.rows, 1)
              ELSE IF value_transaction = "Not Valid" THEN FilterValidity(df.rows, 0)
              ELSE df.rows
        g2 == IF selected_payment # s_All THEN FilterPayment(g1, selected_payment) ELSE g1
        g3 == IF selected_category # s_All THEN FilterCategory(g2, selected_category) ELSE g2
    IN  FilterYear(g3, selected_year.n)

C9_FilterIsRestriction ==
    FilterDone =>
        /\ Range(df_f) \subseteq Range(df.rows)
        /\ df_f = SelectSeq(df.rows, Selected)
        /\ df_f = ReverseOrder
        /\ selected_category = s_All =>
              \A c \in Range(options(df, "category")) \ {s_All} :
                 FilterCategory(df_f, c)
                   = SelectSeq(df.rows, LAMBDA r : Selected(r) /\ CategoryMatches(r, c))

C9_Witness ==
    /\ FilterDone
    /\ selected_category = s_Mobile
    /\ value_transaction = "Valid"
    /\ Len(df.rows) = 2
    /\ Len(df_f) = 1
    /\ \E r \in Range(df.rows) : ~YearMatches(r, selected_year.n)

(***************************************************************************)
(* C10: a row whose order date cannot be parsed stays in the prepared      *)
(* table, with a null date, year and month key, and is in no filtered      *)
(* view: the year selector offers only the years of dated rows and the     *)
(* year predicate is always applied, so such a row is in no aggregate and  *)
(* not in the derived segment.                                             *)
(***************************************************************************)
Undated(r) == r.order_date.t = "nat"

C10_UndatedRowsNeverSelected ==
    /\ Loaded =>
          /\ Len(df.rows) = Len(raw.rows)
          /\ \A i \in 1..Len(raw.rows) :
                raw.rows[i].order_date.t # "date"
                => /\ Undated(df.rows[i])
                   /\ df.rows[i].year = NaN
                   /\ df.rows[i].month = NaN
                   /\ df.rows[i].month_name = NoText
    /\ selected_year # None =>
          \E r \in Range(df.rows) : ~Undated(r) /\ r.year = selected_year
    /\ FilterDone => \A r \in Range(df_f) : ~Undated(r)
    /\ Tab1Done =>
          SumCol(monthly_metrics, "before_discount")
            = SumCol(SelectSeq(df.rows, LAMBDA r : ~Undated(r) /\ Selected(r)),
                     "before_discount")
    /\ Tab2Done => \A r \in Range(df_mobile_jazz) : ~Undated(r)

C10_Witness ==
    /\ pc = "done"
    /\ Len(df_f) = 1
    /\ \E r \in Range(df.rows) : Undated(r)
====
